---- MODULE Spec2Model ----
(***************************************************************************)
(* Model of generator.py: create_audio_track, create_video_track and       *)
(* generate_music_video.  One run of generate_music_video is a state       *)
(* machine whose control points are the values of pc.  The sounds          *)
(* directory, the clips directory and the requested audio format are the   *)
(* inputs, drawn where the code first reads them; the directories do not   *)
(* change during a run.                                                    *)
(* Durations are in milliseconds, as len(AudioSegment) is.                 *)
(***************************************************************************)
EXTENDS Integers, Sequences, FiniteSets, TLC

\* ---------------------------------------------------------------- bounds
MaxFiles == 3
MaxClips == 1

\* ------------------------------------------------------ program constants
TargetMs == 5 * 60 * 1000
crossfade_duration_ms == 3000

AudioExts == {"wav", "mp3", "m4a"}
Formats == {"mp3", "m4a", "ogg"}

\* Segment durations the files of the sounds directory are drawn from:
\* an empty recording, one shorter than the crossfade, one exactly as long
\* as the crossfade, half the target and twice the target (10 minutes).
Durations == {0, 2000, 3000, 150000, 600000}

\* What one entry of the sounds directory can be: a file that the extension
\* filter rejects, a file that passes the filter but does not decode, or a
\* decodable file of some duration.
SoundKinds ==
    {[ext |-> "txt", ok |-> FALSE, dur |-> 0],
     [ext |-> "mp3", ok |-> FALSE, dur |-> 0]}
    \cup {[ext |-> "wav", ok |-> TRUE, dur |-> d] : d \in Durations}

\* File names are sequences of characters.  The name of file f is its stem
\* followed by a dot and the extension of its kind.
Stem(f) ==
    CASE f = 1 -> <<"M", "y", "_", "S", "o", "n", "g", "-", "1">>
      [] f = 2 -> <<"r", "a", "i", "n", ".", "v", "2">>
      [] f = 3 -> <<"d", "E", "E", "P", "-", "s", "e", "a", "_", "3", "d">>
      [] OTHER -> <<"x", "-", "_", "y">>

ExtChars(ext) ==
    CASE ext = "wav" -> <<"w", "a", "v">>
      [] ext = "mp3" -> <<"m", "p", "3">>
      [] ext = "m4a" -> <<"m", "4", "a">>
      [] OTHER -> <<"t", "x", "t">>

FileName(dir, f) == Stem(f) \o <<".">> \o ExtChars(dir[f].ext)

SoundIds == 1..MaxFiles
ClipIds == 1..MaxClips

VARIABLES
    sounds,             \* the sounds directory as create_audio_track sees it:
                        \* file id -> SoundKinds, <<>> outside the call
    clip_files,         \* create_video_track: clip_files
    audio_format,       \* generate_music_video's audio_format, "" until read
    pc,                 \* control point of the run
    audio_files,        \* create_audio_track: the pool (a shuffled list)
    used_files,         \* create_audio_track: used_files
    combined_len,       \* len(combined_audio), the buffer's real duration
    total_duration_ms,  \* create_audio_track: total_duration_ms
    song_titles,        \* song_titles, of create_audio_track and then of
                        \* generate_music_video and create_video_track
    appended,           \* history: assets appended to combined_audio, in order
    selcount,           \* history: times each asset was popped, capped at 2
    tick,               \* history: parity of the number of pops
    temp_wav,           \* temp_combined_audio.wav exists
    artifact,           \* combined_audio.<format> exists
    output,             \* the output video: "none", "partial" or "complete"
    vi,                 \* create_video_track: 1-based index of the next title
    video_clips,        \* create_video_track: video_clips
    vfailed,            \* history: iterations of create_video_track that failed
    final_video,        \* the concatenated clip, <<>> before it is built
    error,              \* the error that ended the run, "none" without one
    outcome             \* "running", "returned" or "raised"

vars == <<sounds, clip_files, audio_format, pc, audio_files, used_files,
          combined_len, total_duration_ms, song_titles, appended, selcount,
          tick, temp_wav, artifact, output, vi, video_clips, vfailed, final_video,
          error, outcome>>

audioVars == <<sounds, audio_files, used_files, combined_len,
               total_duration_ms, song_titles, appended, selcount, tick>>
videoVars == <<clip_files, vi, video_clips, vfailed, final_video>>
diskVars == <<temp_wav, artifact, output>>

\* ------------------------------------------------------------- helpers

\* f.lower().endswith((".wav", ".mp3", ".m4a"))
IsAudio(kind) == kind.ext \in AudioExts

\* the eligible files of a listing of the sounds directory
Listing(dir) == {f \in DOMAIN dir : IsAudio(dir[f])}

\* random.shuffle: every ordering of the files
Shuffles(S) ==
    {p \in [1..Cardinality(S) -> S] : \A i, j \in 1..Cardinality(S) : p[i] = p[j] => i = j}

\* a refill that forgets the filter on used_files
RefillAll(dir, used) == Listing(dir)

\* the refill of the pool: eligible files not in used_files
Refill(dir, used) == {f \in Listing(dir) : f \notin used}

\* the pool the iteration pops from: the current one, or a shuffled refill
PoolsToPop(pool, dir, used) ==
    IF pool = <<>> THEN Shuffles(Refill(dir, used)) ELSE {pool}

\* a pop that leaves the file in the list (audio_files[0])
PopKeeps(pool) == pool

\* audio_files.pop(0): the list left behind
PopRest(pool) == Tail(pool)

\* AudioSegment truth value: a segment is true when its length is not 0
Truthy(len) == len # 0

\* AudioSegment.append(seg, crossfade): raises when the crossfade is longer
\* than either segment
CrossfadeRaises(len1, len2) ==
    crossfade_duration_ms > len1 \/ crossfade_duration_ms > len2

\* a crossfade that takes the overlap out of both segments
CrossfadeLenTwice(len1, len2) == len1 + len2 - 2 * crossfade_duration_ms

\* len() of the result of AudioSegment.append(seg, crossfade)
CrossfadeLen(len1, len2) == len1 + len2 - crossfade_duration_ms

\* whether the try block of one iteration runs to its end for file f
Decodes(dir, f) == dir[f].ok

AppendRaises(len1, len2) == Truthy(len1) /\ CrossfadeRaises(len1, len2)

\* combined_audio after the if/else of the try block
AppendLen(len1, len2) ==
    IF Truthy(len1) THEN CrossfadeLen(len1, len2) ELSE len2

\* a bookkeeping that adds what a crossfaded segment adds to the buffer
AddDurationNet(total, seglen) == total + seglen - crossfade_duration_ms

\* total_duration_ms += len(audio_segment)
AddDuration(total, seglen) == total + seglen

\* the cased characters of the names, lower and upper case
Lowers == <<"a", "b", "c", "d", "e", "f", "g", "h", "i", "j", "k", "l", "m",
            "n", "o", "p", "q", "r", "s", "t", "u", "v", "w", "x", "y", "z">>
Uppers == <<"A", "B", "C", "D", "E", "F", "G", "H", "I", "J", "K", "L", "M",
            "N", "O", "P", "Q", "R", "S", "T", "U", "V", "W", "X", "Y", "Z">>

IndexIn(seq, c) ==
    IF \E i \in 1..Len(seq) : seq[i] = c
    THEN CHOOSE i \in 1..Len(seq) : seq[i] = c
    ELSE 0

IsCased(c) == IndexIn(Lowers, c) # 0 \/ IndexIn(Uppers, c) # 0
ToUpper(c) == IF IndexIn(Lowers, c) # 0 THEN Uppers[IndexIn(Lowers, c)] ELSE c
ToLower(c) == IF IndexIn(Uppers, c) # 0 THEN Lowers[IndexIn(Uppers, c)] ELSE c

\* os.path.splitext(name)[0]: the name up to its last dot, the whole name
\* when it has no dot or only leading dots
SplitextRoot(name) ==
    LET dots == {i \in 1..Len(name) : name[i] = "."}
        last == CHOOSE i \in dots : \A j \in dots : j <= i
    IN  IF dots = {} \/ (\A j \in 1..(last - 1) : name[j] = ".")
        THEN name
        ELSE SubSeq(name, 1, last - 1)

\* str.replace(old, new) for single characters
ReplaceChar(str, old, new) ==
    [i \in 1..Len(str) |-> IF str[i] = old THEN new ELSE str[i]]

\* str.title(): a cased character is upper case when the character before
\* it is not cased, and lower case when it is
StrTitle(str) ==
    [i \in 1..Len(str) |->
        IF ~IsCased(str[i]) THEN str[i]
        ELSE IF i > 1 /\ IsCased(str[i - 1]) THEN ToLower(str[i])
        ELSE ToUpper(str[i])]

\* a title that replaces the underscores and forgets the dashes
TitleKeepsDashes(name) ==
    CHOOSE title \in
        {StrTitle(under) :
            under \in {ReplaceChar(root, "_", " ") :
                root \in {SplitextRoot(name)}}} : TRUE

\* line 81: the song title of the file called name.  The four calls are
\* made one after the other, each on the value the one before returned.
Title(name) ==
    CHOOSE title \in
        {StrTitle(spaced) :
            spaced \in {ReplaceChar(under, "-", " ") :
                under \in {ReplaceChar(root, "_", " ") :
                    root \in {SplitextRoot(name)}}}} : TRUE

\* an iteration that forgets the title
TitlesDropped(titles, name) == titles

\* song_titles.append(song_title)
TitlesAfter(titles, name) == Append(titles, Title(name))

\* an iteration that forgets to mark the file used
UsedForgotten(used, f) == used

\* used_files.add(audio_file)
UsedAfter(used, f) == used \cup {f}

\* a loop test that lets the loop go on at the target itself
ShouldContinueAtTarget(total) == total <= TargetMs

\* while total_duration_ms < 5 * 60 * 1000
ShouldContinue(total) == total < TargetMs

\* the pop counter of the history, which stops counting at 2
Bump(n) == IF n < 2 THEN n + 1 ELSE 2

\* a cleanup that removes nothing
ArtifactKept(exists) == exists

\* os.remove(audio_path)
RemoveArtifact(exists) == FALSE

\* what a failed video iteration failed at
VideoFailures == {"decode", "transition", "caption", "compose"}

\* an iteration that skips the transition
TransitionSkipped(buf, clip) == buf

\* lines 145-148: the last element of video_clips is replaced by the
\* composite of its fade-out and the fade-in of the new clip
Transition(buf, clip) ==
    IF buf = <<>> THEN buf
    ELSE [buf EXCEPT ![Len(buf)].trans = Append(@, clip)]

\* lines 151-156: the clip with its caption, appended to video_clips
Captioned(clip, title) == [clip |-> clip, title |-> title, trans |-> <<>>]

\* an iteration that appends its clip whatever happened to it
VideoStepAppendsAlways(buf, clip, title, result) ==
    Append(Transition(buf, clip), Captioned(clip, title))

\* video_clips after one iteration of the loop of create_video_track that
\* chose clip for title and ended with result ("ok" or a failure)
VideoStep(buf, clip, title, result) ==
    CASE result = "decode" -> buf
      [] result = "transition" -> buf
      [] result \in {"caption", "compose"} -> Transition(buf, clip)
      [] OTHER -> Append(Transition(buf, clip), Captioned(clip, title))

\* the results an iteration can end with: a transition is attempted, and
\* can fail, only when video_clips is not empty
VideoResults(buf) ==
    {"ok"} \cup (IF buf = <<>> THEN VideoFailures \ {"transition"} ELSE VideoFailures)

\* ------------------------------------------------------------------ Init

Init ==
    /\ sounds = <<>>
    /\ clip_files = {}
    /\ audio_format = ""
    /\ pc = "audio_scan"
    /\ audio_files = <<>>
    /\ used_files = {}
    /\ combined_len = 0
    /\ total_duration_ms = 0
    /\ song_titles = <<>>
    /\ appended = <<>>
    /\ selcount = [f \in SoundIds |-> 0]
    /\ tick = 0
    /\ temp_wav = FALSE
    /\ artifact = FALSE
    /\ output = "none"
    /\ vi = 1
    /\ video_clips = <<>>
    /\ vfailed = 0
    /\ final_video = <<>>
    /\ error = "none"
    /\ outcome = "running"

\* ---------------------------------------------------- create_audio_track

\* a generate_music_video that lets the ValueError through
AudioStageReraise(msg) ==
    /\ pc' = "exit"
    /\ error' = msg
    /\ outcome' = "raised"

\* lines 191-193: generate_music_video catches the ValueError of the audio
\* stage, logs it and returns
AudioStageError(msg) ==
    /\ pc' = "exit"
    /\ error' = msg
    /\ outcome' = "returned"

\* the locals of create_audio_track, and the history of its loop, once the
\* call is over
AudioCallOver ==
    /\ sounds' = <<>>
    /\ audio_files' = <<>>
    /\ used_files' = {}
    /\ total_duration_ms' = 0
    /\ appended' = <<>>
    /\ selcount' = [f \in SoundIds |-> 0]
    /\ tick' = 0

\* lines 28-36 on a directory with no eligible file: ValueError
AudioCatalogEmpty ==
    /\ pc = "audio_scan"
    /\ \E dir \in [SoundIds -> SoundKinds] : Listing(dir) = {}
    /\ AudioStageError("audio_catalog_empty")
    /\ UNCHANGED <<audioVars, audio_format, videoVars, diskVars>>

\* lines 28-44 on a directory with eligible files: shuffle them and enter
\* the loop
AudioStart ==
    /\ pc = "audio_scan"
    /\ \E dir \in [SoundIds -> SoundKinds] :
         /\ Listing(dir) # {}
         /\ sounds' = dir
         /\ \E p \in Shuffles(Listing(dir)) : audio_files' = p
    /\ used_files' = {}
    /\ combined_len' = 0
    /\ total_duration_ms' = 0
    /\ song_titles' = <<>>
    /\ pc' = "audio_loop"
    /\ UNCHANGED <<appended, selcount, tick, audio_format, videoVars, diskVars,
                   error, outcome>>

\* line 46 with the condition false: leave the loop
AudioTargetReached ==
    /\ pc = "audio_loop"
    /\ ~ShouldContinue(total_duration_ms)
    /\ pc' = "audio_export"
    /\ UNCHANGED <<audioVars, audio_format, videoVars, diskVars, error, outcome>>

\* lines 47-52: the pool is empty and so is its refill: break
AudioBreak ==
    /\ pc = "audio_loop"
    /\ ShouldContinue(total_duration_ms)
    /\ audio_files = <<>>
    /\ Refill(sounds, used_files) = {}
    /\ pc' = "audio_export"
    /\ UNCHANGED <<audioVars, audio_format, videoVars, diskVars, error, outcome>>

\* lines 46-88: one iteration that pops a file (after a refill of the pool
\* when it was empty) and runs the try block on it
AudioIterate ==
    /\ pc = "audio_loop"
    /\ ShouldContinue(total_duration_ms)
    /\ ~(audio_files = <<>> /\ Refill(sounds, used_files) = {})
    /\ \E pool \in PoolsToPop(audio_files, sounds, used_files) :
         LET audio_file == Head(pool)
             seglen == sounds[audio_file].dur
             done == /\ audio_file \notin used_files
                     /\ Decodes(sounds, audio_file)
                     /\ ~AppendRaises(combined_len, seglen)
         IN  /\ audio_files' = PopRest(pool)
             /\ selcount' = [selcount EXCEPT ![audio_file] = Bump(@)]
             /\ tick' = 1 - tick
             /\ IF done
                THEN /\ combined_len' = AppendLen(combined_len, seglen)
                     /\ total_duration_ms' = AddDuration(total_duration_ms, seglen)
                     /\ song_titles' = TitlesAfter(song_titles, FileName(sounds, audio_file))
                     /\ used_files' = UsedAfter(used_files, audio_file)
                     /\ appended' = Append(appended, audio_file)
                ELSE UNCHANGED <<combined_len, total_duration_ms, song_titles,
                                 used_files, appended>>
    /\ UNCHANGED <<sounds, pc, audio_format, videoVars, diskVars, error, outcome>>

\* lines 90-111 with a supported format: both exports, then the return to
\* generate_music_video (line 195)
AudioExport ==
    /\ pc = "audio_export"
    /\ \E fmt \in {"mp3", "m4a"} : audio_format' = fmt
    /\ temp_wav' = TRUE
    /\ artifact' = TRUE
    /\ pc' = "video_scan"
    /\ AudioCallOver
    /\ UNCHANGED <<combined_len, song_titles, videoVars, output, error, outcome>>

\* lines 90-109 with any other format: the debug WAV is written, then
\* ValueError
AudioExportUnsupported ==
    /\ pc = "audio_export"
    /\ \E fmt \in Formats \ {"mp3", "m4a"} : audio_format' = fmt
    /\ temp_wav' = TRUE
    /\ AudioStageError("unsupported_format")
    /\ AudioCallOver
    /\ UNCHANGED <<combined_len, song_titles, videoVars, artifact, output>>


\* ---------------------------------------------------- create_video_track

\* lines 199-202: generate_music_video catches the ValueError of the video
\* stage, logs it, removes the audio file and returns
VideoStageError(msg) ==
    /\ pc' = "exit"
    /\ error' = msg
    /\ artifact' = RemoveArtifact(artifact)
    /\ outcome' = "returned"

\* an exception that generate_music_video does not catch
Uncaught(msg) ==
    /\ pc' = "exit"
    /\ error' = msg
    /\ outcome' = "raised"

\* lines 127-132 on a directory with no eligible file: ValueError
VideoCatalogEmpty ==
    /\ pc = "video_scan"
    /\ clip_files' = {}
    /\ VideoStageError("video_catalog_empty")
    /\ UNCHANGED <<audioVars, audio_format, vi, video_clips, vfailed, final_video,
                   temp_wav, output>>

\* lines 127-135 on a directory with eligible files
VideoStart ==
    /\ pc = "video_scan"
    /\ \E dir \in SUBSET ClipIds : dir # {} /\ clip_files' = dir
    /\ video_clips' = <<>>
    /\ vi' = 1
    /\ vfailed' = 0
    /\ pc' = "video_loop"
    /\ UNCHANGED <<audioVars, audio_format, final_video, diskVars, error, outcome>>

\* lines 137-161: one iteration of the loop over song_titles
VideoIterate ==
    /\ pc = "video_loop"
    /\ vi <= Len(song_titles)
    /\ \E clip_file \in clip_files, result \in VideoResults(video_clips) :
         /\ video_clips' = VideoStep(video_clips, clip_file, song_titles[vi], result)
         /\ vfailed' = IF result = "ok" THEN vfailed ELSE vfailed + 1
    /\ vi' = vi + 1
    /\ UNCHANGED <<audioVars, audio_format, clip_files, final_video, pc,
                   diskVars, error, outcome>>

\* lines 163-166: no iteration appended a clip: ValueError
VideoNoClips ==
    /\ pc = "video_loop"
    /\ vi > Len(song_titles)
    /\ video_clips = <<>>
    /\ VideoStageError("no_clips_composed")
    /\ UNCHANGED <<audioVars, audio_format, videoVars, temp_wav, output>>

\* lines 168-170 and 203: the clips are concatenated and returned
VideoConcat ==
    /\ pc = "video_loop"
    /\ vi > Len(song_titles)
    /\ video_clips # <<>>
    /\ final_video' = video_clips
    /\ pc' = "mux"
    /\ UNCHANGED <<audioVars, audio_format, clip_files, vi, video_clips, vfailed,
                   diskVars, error, outcome>>

\* line 168 raises: concatenate_videoclips raises no ValueError of
\* create_video_track, and generate_music_video catches nothing else
VideoConcatFails ==
    /\ pc = "video_loop"
    /\ vi > Len(song_titles)
    /\ video_clips # <<>>
    /\ Uncaught("concatenate")
    /\ UNCHANGED <<audioVars, audio_format, videoVars, diskVars>>

\* -------------------------------------------------- generate_music_video

\* a generate_music_video that removes the audio file once it was read
MuxRemovesAudio ==
    /\ pc = "mux"
    /\ pc' = "encode"
    /\ artifact' = FALSE
    /\ UNCHANGED <<audioVars, audio_format, videoVars, temp_wav, output, error,
                   outcome>>

\* line 206: the audio file is read back and set as the video's audio
Mux ==
    /\ pc = "mux"
    /\ pc' = "encode"
    /\ UNCHANGED <<audioVars, audio_format, videoVars, diskVars, error, outcome>>

\* line 206 raises
MuxFails ==
    /\ pc = "mux"
    /\ Uncaught("mux")
    /\ UNCHANGED <<audioVars, audio_format, videoVars, diskVars>>

\* line 209: the output video is written
Encode ==
    /\ pc = "encode"
    /\ output' = "complete"
    /\ pc' = "cleanup"
    /\ UNCHANGED <<audioVars, audio_format, videoVars, temp_wav, artifact,
                   error, outcome>>

\* line 209 raises, with nothing or a part of the output video written
EncodeFails ==
    /\ pc = "encode"
    /\ output' \in {"none", "partial"}
    /\ Uncaught("encode")
    /\ UNCHANGED <<audioVars, audio_format, videoVars, temp_wav, artifact>>

\* lines 212-218: the video is closed, the audio file removed: return
Cleanup ==
    /\ pc = "cleanup"
    /\ artifact' = RemoveArtifact(artifact)
    /\ pc' = "exit"
    /\ outcome' = "returned"
    /\ UNCHANGED <<audioVars, audio_format, videoVars, temp_wav, output, error>>

Next ==
    \/ AudioCatalogEmpty
    \/ AudioStart
    \/ AudioTargetReached
    \/ AudioBreak
    \/ AudioIterate
    \/ AudioExport
    \/ AudioExportUnsupported
    \/ VideoCatalogEmpty
    \/ VideoStart
    \/ VideoIterate
    \/ VideoNoClips
    \/ VideoConcat
    \/ VideoConcatFails
    \/ Mux
    \/ MuxFails
    \/ Encode
    \/ EncodeFails
    \/ Cleanup

Spec == Init /\ [][Next]_vars

\* the run is sequential: a step that can be taken is taken
FairSpec == Spec /\ WF_vars(Next)

\* ---------------------------------------------------------------- claims

InAudioCall == pc \in {"audio_loop", "audio_export"}

\* the create_audio_track call has left its loop
AudioLoopExited == pc = "audio_export"

\* combined_audio.<format> was written during this run
ArtifactWasCreated == audio_format \in {"mp3", "m4a"}

\* C1: once the audio loop is entered (the directory holds at least one
\* eligible file) it eventually exits, whatever the durations and the
\* decode and append outcomes of the files are.
C1_AudioLoopTerminates == (pc = "audio_loop") ~> AudioLoopExited

C3_ArtifactDeletedOnEveryExit ==
    (pc = "exit" /\ ArtifactWasCreated) => ~artifact

\* C4: when the video stage fails for lack of eligible video files or
\* because every iteration failed, generate_music_video returns with the
\* audio artifact deleted and no output video written.
C4_VideoFailureCleansUp ==
    (pc = "exit" /\ error \in {"video_catalog_empty", "no_clips_composed"})
        => /\ ArtifactWasCreated
           /\ ~artifact
           /\ output = "none"
           /\ outcome = "returned"

C4_Witness ==
    /\ pc = "exit"
    /\ error = "no_clips_composed"
    /\ Len(song_titles) >= 2
    /\ temp_wav

\* C5 as stated: with no eligible audio file generate_music_video raises
\* the error to its caller, creates no file and never starts the video
\* stage.
C5_CatalogEmptyRaises ==
    (pc = "exit" /\ error = "audio_catalog_empty")
        => /\ outcome = "raised"
           /\ ~artifact /\ ~temp_wav /\ output = "none"
           /\ clip_files = {} /\ video_clips = <<>>

\* C5 amended: with no eligible audio file generate_music_video returns
\* normally (the ValueError of create_audio_track is caught and logged),
\* creates no file and never starts the video stage.
C5_CatalogEmptyReturns ==
    (pc = "exit" /\ error = "audio_catalog_empty")
        => /\ outcome = "returned"
           /\ ~artifact /\ ~temp_wav /\ output = "none"
           /\ clip_files = {} /\ video_clips = <<>> /\ final_video = <<>>

C5_Witness ==
    /\ pc = "exit"
    /\ error = "audio_catalog_empty"
    /\ song_titles = <<>>

\* C6: the clip create_video_track returns has as many composed segments
\* as there are song titles.
C6_SegmentCountEqualsTitles ==
    final_video # <<>> => Len(final_video) = Len(song_titles)

\* C7: during the audio loop song_titles has one title per appended
\* segment, the i-th title being the one of the i-th appended asset.
C7_TitlesMatchAppended ==
    InAudioCall =>
        /\ Len(song_titles) = Len(appended)
        /\ \A i \in 1..Len(appended) : song_titles[i] = Title(FileName(sounds, appended[i]))

C7_Witness ==
    /\ pc = "audio_loop"
    /\ Len(appended) = 2
    /\ \E f \in SoundIds : selcount[f] >= 1 /\ f \notin used_files

\* the 3 unique decodable assets of 10 minutes each
ThreeTenMinuteAssets ==
    /\ Cardinality(Listing(sounds)) = 3
    /\ \A f \in Listing(sounds) : sounds[f].ok /\ sounds[f].dur = 600000

\* the number of pops so far, as far as the history counts them
Pops == Cardinality({f \in SoundIds : selcount[f] >= 1})
        + Cardinality({f \in SoundIds : selcount[f] >= 2})

\* C8: an asset is popped, and a segment appended, only while
\* total_duration_ms is under the target; with 3 decodable assets of 10
\* minutes each exactly 1 asset is popped, 1 segment appended and 1 title
\* produced.
C8_SelectsOnlyUnderTarget ==
    /\ [][(pc = "audio_loop" /\ (tick' # tick \/ appended' # appended))
            => total_duration_ms < TargetMs]_vars
    /\ []((AudioLoopExited /\ ThreeTenMinuteAssets)
            => Pops = 1 /\ Len(appended) = 1 /\ Len(song_titles) = 1)

C8_Witness ==
    /\ AudioLoopExited
    /\ ThreeTenMinuteAssets
    /\ total_duration_ms = 600000

\* C9: when the loop exits because the target was reached, the real
\* duration of combined_audio is at least the target.
C9_BufferReachesTarget ==
    (AudioLoopExited /\ total_duration_ms >= TargetMs)
        => combined_len >= TargetMs

\* a step of the audio loop that appended a segment
Appends == pc = "audio_loop" /\ Len(appended') > Len(appended)

\* the duration of the segment that step appended
AppendedLen == sounds[appended'[Len(appended')]].dur

\* C10 as stated: every successful append makes combined_audio strictly
\* longer.
C10_AppendStrictlyLonger ==
    [][Appends => combined_len' > combined_len]_vars

\* C10 amended: a successful append never makes combined_audio shorter,
\* and makes it strictly longer whenever the appended segment is longer
\* than the overlap it is joined with: 3000 ms for a crossfaded append,
\* nothing for the plain one.
C10_AppendNeverShorter ==
    [][Appends =>
          /\ combined_len' >= combined_len
          /\ (AppendedLen > (IF Truthy(combined_len) THEN crossfade_duration_ms ELSE 0)
                => combined_len' > combined_len)]_vars

C10_Witness ==
    /\ pc = "audio_loop"
    /\ Len(appended) = 2
    /\ sounds[appended[1]].dur = 150000
    /\ sounds[appended[2]].dur = 150000
    /\ combined_len = 297000

\* the characters of "My_Song-1.wav" and of "My Song 1"
MySongWav == <<"M", "y", "_", "S", "o", "n", "g", "-", "1", ".", "w", "a", "v">>
MySongTitle == <<"M", "y", " ", "S", "o", "n", "g", " ", "1">>

\* title is name without its extension, with every underscore and dash
\* turned into a space and every word in title case
IsTitleOf(title, name, ext) ==
    /\ Len(title) = Len(name) - (Len(ext) + 1)
    /\ \A k \in 1..Len(title) :
         /\ name[k] \in {"_", "-"} => title[k] = " "
         /\ (name[k] \notin {"_", "-"} /\ ~IsCased(name[k])) => title[k] = name[k]
         /\ IsCased(name[k]) =>
              /\ ToLower(title[k]) = ToLower(name[k])
              /\ (IndexIn(Uppers, title[k]) # 0)
                    <=> (k = 1 \/ ~IsCased(name[k - 1]))

\* C11: every song title is the file's name without its extension, with
\* '_' and '-' replaced by spaces, in title case; the file My_Song-1.wav
\* gets the title "My Song 1".
C11_TitleFromFilename ==
    InAudioCall =>
        \A i \in 1..Len(appended) :
            LET name == FileName(sounds, appended[i])
            IN  /\ i <= Len(song_titles)
                /\ IsTitleOf(song_titles[i], name, ExtChars(sounds[appended[i]].ext))
                /\ name = MySongWav => song_titles[i] = MySongTitle

C11_Witness ==
    /\ InAudioCall
    /\ \E i \in 1..Len(appended) : FileName(sounds, appended[i]) = MySongWav
    /\ \E i \in 1..Len(song_titles) : song_titles[i] = <<"R", "a", "i", "n", ".", "V", "2">>
    /\ \E i \in 1..Len(song_titles) :
         song_titles[i] = <<"D", "e", "e", "p", " ", "S", "e", "a", " ", "3", "D">>

\* C12: an asset whose decoding or appending failed is in used_files all
\* the same, and is never popped again: every popped asset is in
\* used_files and was popped once.
C12_FailedAssetIsUsed ==
    InAudioCall =>
        \A f \in SoundIds : selcount[f] >= 1 => (f \in used_files /\ selcount[f] = 1)

\* the elements of a sequence
Range(seq) == {seq[i] : i \in 1..Len(seq)}

\* the eligible files of the directory that are not in used_files
NotYetUsed == {f \in SoundIds : IsAudio(sounds[f]) /\ f \notin used_files}

\* a step of the audio loop that popped a file
Pop == pc = "audio_loop" /\ tick' # tick

\* C13: the loop is left under the target only with the pool empty and no
\* eligible file outside used_files; the export that follows is the normal
\* one (the artifact is written, buffer and titles are returned as they
\* are); an iteration that finds the pool empty and some file not yet used
\* rebuilds the pool from exactly the files not yet used and goes on.
C13_EarlyStopAndRefill ==
    /\ []((AudioLoopExited /\ total_duration_ms < TargetMs)
            => (audio_files = <<>> /\ NotYetUsed = {} /\ error = "none"))
    /\ [][(AudioLoopExited /\ audio_format' \in {"mp3", "m4a"})
            => /\ pc' = "video_scan" /\ artifact' /\ error' = "none"
               /\ song_titles' = song_titles /\ combined_len' = combined_len]_vars
    /\ [][(pc = "audio_loop" /\ total_duration_ms < TargetMs
              /\ audio_files = <<>> /\ NotYetUsed # {})
            => /\ Pop /\ pc' = "audio_loop"
               /\ Len(audio_files') = Cardinality(NotYetUsed) - 1
               /\ \E f \in NotYetUsed :
                    /\ f \notin Range(audio_files')
                    /\ Range(audio_files') = NotYetUsed \ {f}]_vars

C13_Witness ==
    /\ AudioLoopExited
    /\ total_duration_ms < TargetMs
    /\ Len(song_titles) = 3
    /\ combined_len > 0

RECURSIVE SumDur(_)
\* the sum of the nominal durations of the assets of a sequence
SumDur(seq) ==
    IF seq = <<>> THEN 0 ELSE sounds[Head(seq)].dur + SumDur(Tail(seq))

\* C14 as stated: total_duration_ms is the sum of the nominal durations of
\* the appended segments, and the buffer is shorter than it by 3000 ms for
\* every append after the first.
C14_BufferShortBy3000PerAppend ==
    (InAudioCall /\ appended # <<>>) =>
        /\ total_duration_ms = SumDur(appended)
        /\ combined_len
             = total_duration_ms - crossfade_duration_ms * (Len(appended) - 1)

\* the appends that were crossfaded: those that found a buffer of a
\* duration other than 0, that is, those after a segment longer than 0 ms
CrossfadedAppends ==
    {i \in 2..Len(appended) : \E j \in 1..(i - 1) : sounds[appended[j]].dur > 0}

\* C14 amended: total_duration_ms is the sum of the nominal durations of
\* the appended segments and never decreases, and the buffer is shorter
\* than it by 3000 ms for every append that was crossfaded: every append
\* after the first one whose segment is longer than 0 ms.
C14_BufferShortBy3000PerCrossfade ==
    /\ []((InAudioCall /\ appended # <<>>) =>
            /\ total_duration_ms = SumDur(appended)
            /\ combined_len
                 = total_duration_ms
                   - crossfade_duration_ms * Cardinality(CrossfadedAppends))
    /\ [][(pc = "audio_loop") => total_duration_ms' >= total_duration_ms]_vars

C14_Witness ==
    /\ InAudioCall
    /\ Len(appended) = 3
    /\ total_duration_ms = 156000
    /\ combined_len = 150000

InVideoCall == pc = "video_loop"

\* a step of the loop of create_video_track
VideoIteration == pc = "video_loop" /\ vi' # vi

\* the titles of the composed elements are titles already processed, in
\* the order of song_titles
InTitleOrder(buf) ==
    /\ \A k \in 1..Len(buf) : \E i \in 1..(vi - 1) : song_titles[i] = buf[k].title
    /\ \A k, l \in 1..Len(buf) :
         k < l => \E i, j \in 1..(vi - 1) :
                     /\ i < j
                     /\ song_titles[i] = buf[k].title
                     /\ song_titles[j] = buf[l].title

\* C15: create_video_track runs one iteration per song title, in the order
\* of the list; the number of composed elements is the number of titles
\* processed minus the number of failed iterations, at most len(song_titles).
C15_OneIterationPerTitle ==
    /\ [](InVideoCall =>
            /\ vi <= Len(song_titles) + 1
            /\ Len(video_clips) = (vi - 1) - vfailed
            /\ Len(video_clips) <= Len(song_titles)
            /\ InTitleOrder(video_clips))
    /\ [][VideoIteration =>
            /\ vi <= Len(song_titles) /\ vi' = vi + 1
            /\ (Len(video_clips') > Len(video_clips)
                  => video_clips'[Len(video_clips')].title = song_titles[vi])]_vars
    /\ [][(pc = "video_loop" /\ pc' # "video_loop") => vi = Len(song_titles) + 1]_vars

C15_Witness ==
    /\ InVideoCall
    /\ vi = Len(song_titles) + 1
    /\ Len(song_titles) = 3
    /\ vfailed = 1
    /\ Len(video_clips) = 2

SequencerFailures ==
    {"audio_catalog_empty", "unsupported_format", "video_catalog_empty",
     "no_clips_composed", "concatenate"}

\* C16: an output video exists only when the audio artifact was written,
\* the video stage returned a clip with at least one segment and both
\* stages are over; a run in which a sequencer failed writes no output
\* video at all; the audio artifact is removed only after the encode step
\* completed or when the video stage failed.
C16_OutputOnlyAfterBothStages ==
    /\ [](output # "none" =>
            /\ ArtifactWasCreated
            /\ final_video # <<>>
            /\ pc \in {"cleanup", "exit"})
    /\ [](error \in SequencerFailures => output = "none")
    /\ [][(artifact /\ ~artifact') =>
            \/ (pc = "cleanup" /\ output = "complete")
            \/ error' \in {"video_catalog_empty", "no_clips_composed"}]_vars

C16_Witness ==
    /\ pc = "exit"
    /\ output = "complete"
    /\ ~artifact
    /\ Len(final_video) >= 2

\* every element but the first was appended after the transition into its
\* clip was put on the element before it
TransitionsInPlace(buf) ==
    \A k \in 2..Len(buf) :
        /\ buf[k - 1].trans # <<>>
        /\ \E n \in 1..Len(buf[k - 1].trans) : buf[k - 1].trans[n] = buf[k].clip

\* C17: when a segment is appended to a buffer that is not empty, the last
\* element is replaced in the same iteration by its composite with the new
\* clip, so every element of the buffer and of the concatenated result but
\* the first has its transition on the element before it; the first
\* segment is appended with no transition.
C17_TransitionBeforeAppend ==
    /\ [](TransitionsInPlace(video_clips) /\ TransitionsInPlace(final_video))
    /\ [][(VideoIteration /\ Len(video_clips') > Len(video_clips)) =>
            LET n == Len(video_clips)
            IN  /\ Len(video_clips') = n + 1
                /\ video_clips'[n + 1].trans = <<>>
                /\ n = 0 => video_clips' = <<video_clips'[1]>>
                /\ n > 0 =>
                     /\ video_clips'[n].trans
                          = Append(video_clips[n].trans, video_clips'[n + 1].clip)
                     /\ SubSeq(video_clips', 1, n - 1) = SubSeq(video_clips, 1, n - 1)]_vars

C17_Witness ==
    /\ Len(final_video) = 3
    /\ final_video[1].trans # <<>>
    /\ final_video[2].trans # <<>>
    /\ final_video[3].trans = <<>>

\* C18: a failed video iteration leaves video_clips as it was.
C18_FailedIterationChangesNothing ==
    [][(VideoIteration /\ vfailed' > vfailed) => video_clips' = video_clips]_vars

\* C19: no asset is appended twice in one run: the appended assets are all
\* different and all in used_files, the pool holds no file of used_files,
\* and used_files only grows while the call lasts.
C19_NoAssetAppendedTwice ==
    /\ [](InAudioCall =>
            /\ \A i, j \in 1..Len(appended) : appended[i] = appended[j] => i = j
            /\ Range(appended) \subseteq used_files
            /\ Range(audio_files) \cap used_files = {})
    /\ [][(pc = "audio_loop") => used_files \subseteq used_files']_vars

C19_Witness ==
    /\ pc = "audio_loop"
    /\ Len(appended) = 2
    /\ \E f \in SoundIds : selcount[f] = 2

====
